---- MODULE Spec2Model ----
(***************************************************************************)
(* Model of jwst/associations/lib/product_utils.py: the pruning of          *)
(* duplicate associations (prune, prune_duplicate_associations,             *)
(* prune_duplicate_products, compare_nosuffix, prune_remove,                *)
(* identify_dups, sort_by_candidate, get_product_names).                    *)
(*                                                                         *)
(* An association is a Python object: it is modelled by an object id (oid) *)
(* with its attributes in the functions asn_id, products (fixed) and        *)
(* asn_name (mutable).  Lists of associations are sequences of oids, so    *)
(* that a rename is seen through every list that holds the object.         *)
(* Strings that the code inspects or builds (asn_name, asn_id) are         *)
(* sequences of one-character strings.                                     *)
(***************************************************************************)
EXTENDS Integers, Sequences, FiniteSets, TLC

VARIABLES
    asns,         \* the list of associations held by the caller (argument / result of prune)
    asn_id,       \* oid -> asn['asn_id'], the candidate id
    products,     \* oid -> asn['products'], a sequence of [name, members]
    asn_name,     \* oid -> asn.asn_name (mutable)
    DEBUG,        \* config.DEBUG
    DupCount,     \* the module global DupCount
    pc,           \* position inside prune: "idle" or "mid" (between the two passes)
    runs,         \* number of completed calls of prune
    run_in,       \* history: asns on entry to the current / last call of prune
    run_in_name,  \* history: asn_name on entry to the current / last call of prune
    pass_in,      \* history: asns on entry to the last pass
    pass_in_name, \* history: asn_name on entry to the last pass
    pass_in_count, \* history: DupCount on entry to the last pass
    known_dups,   \* history: the list known_dups as the last pass left it
    calls,        \* history: the calls of diff.compare_product_membership made by the last pass
    warnings,     \* history: the diagnostics (logger.warning) of the last pass
    removed,      \* history: the associations handed to prune_remove by the last pass, in order
    assigned,     \* history: the values of DupCount written into names, in order
    failed,       \* history: an exception escaped (list.remove of an absent element)
    pool,         \* history: len(ordered_asns) at each pop of the last prune_duplicate_associations
    args,         \* the arguments of a function that is called on its own
    returned      \* what that call returned

vars == <<asns, asn_id, products, asn_name, DEBUG, DupCount, pc, runs, run_in,
          run_in_name, pass_in, pass_in_name, pass_in_count, known_dups, calls,
          warnings, removed, assigned, failed, pool, args, returned>>

(***************************************************************************)
(* Bounds of the model.                                                    *)
(***************************************************************************)
MaxPlans == 3
MaxRuns == 2
\* the number of associations when all carry one product name and one asn_id
MaxSameName == 4
\* the number of products of an association handed to compare_nosuffix
MaxProducts == 2
\* the number of differences in a report of the comparator
MaxDiffs == 2

(***************************************************************************)
(* Strings.                                                                *)
(***************************************************************************)
Last(s) == s[Len(s)]
Front(s) == SubSeq(s, 1, Len(s) - 1)
Range(s) == {s[i] : i \in 1..Len(s)}

\* ord() of the characters that occur in candidate ids
CharCode(c) ==
    CASE c = "0" -> 48 [] c = "1" -> 49 [] c = "2" -> 50 [] c = "3" -> 51
      [] c = "4" -> 52 [] c = "5" -> 53 [] c = "6" -> 54 [] c = "7" -> 55
      [] c = "8" -> 56 [] c = "9" -> 57 [] c = "a" -> 97 [] c = "c" -> 99
      [] c = "o" -> 111

ByLength(s, t) == Len(s) < Len(t)

\* Python's str < str: lexicographic on code points, a proper prefix is smaller
RECURSIVE StrLess(_, _)
StrLess(s, t) ==
    IF t = <<>> THEN FALSE
    ELSE IF s = <<>> THEN TRUE
    ELSE IF s[1] # t[1] THEN CharCode(s[1]) < CharCode(t[1])
    ELSE StrLess(Tail(s), Tail(t))

DigitChar(d) ==
    CASE d = 0 -> "0" [] d = 1 -> "1" [] d = 2 -> "2" [] d = 3 -> "3" [] d = 4 -> "4"
      [] d = 5 -> "5" [] d = 6 -> "6" [] d = 7 -> "7" [] d = 8 -> "8" [] d = 9 -> "9"

\* str(n) for n >= 0
RECURSIVE Decimal(_)
Decimal(n) ==
    IF n < 10 THEN <<DigitChar(n)>> ELSE Append(Decimal(n \div 10), DigitChar(n % 10))

\* the format specification 05d: zero-padded to at least five characters
RECURSIVE ZeroPad(_, _)
ZeroPad(s, width) == IF Len(s) >= width THEN s ELSE ZeroPad(<<"0">> \o s, width)

Format05d(n) == ZeroPad(Decimal(n), 5)

\* asn.asn_name.startswith('dup')
StartsWithDup(name) == Len(name) >= 3 /\ SubSeq(name, 1, 3) = <<"d", "u", "p">>

TogglePrefix(count, name) ==
    IF StartsWithDup(name) THEN SubSeq(name, 10, Len(name))
    ELSE <<"d", "u", "p">> \o Format05d(count) \o <<"_">> \o name

\* f'dup{DupCount:05d}_{asn.asn_name}'
DupName(count, name) == <<"d", "u", "p">> \o Format05d(count) \o <<"_">> \o name

(***************************************************************************)
(* The input domain: candidate ids, product names, members.                *)
(***************************************************************************)
\* candidate ids; as strings "a10" < "a2"
CandidateIds == {<<"a", "1", "0">>, <<"a", "2">>}

ProductNames == {"P", "Q"}

\* a member: expname is the file stem split at "_", exptype is its role
Member(base, suffix, exptype) == [expname |-> <<base, suffix>>, exptype |-> exptype]

MemberSets ==
    { {Member("s1", "rate", "science")},
      {Member("s1", "rateints", "science")},
      {Member("s2", "rate", "background")},
      {Member("s1", "rate", "science"), Member("s2", "rate", "background")} }

\* the name the generator gives the i-th association
BaseName(i) == <<"a", "s", "n">> \o Decimal(i)

(***************************************************************************)
(* Collaborators outside product_utils.py.                                 *)
(***************************************************************************)
KnownSuffixes == {"rate", "rateints"}

\* jwst.lib.suffix.remove_suffix(stem)[0]: the stem without a trailing known suffix
remove_suffix(stem) ==
    IF Len(stem) > 1 /\ Last(stem) \in KnownSuffixes THEN Front(stem) ELSE stem

\* diff.compare_product_membership(left, right): the list of differences it raises
\* as MultiDiffError; the empty list when it returns normally (a match)
compare_product_membership(left, right) ==
    LET lnames == {m.expname : m \in left.members}
        rnames == {m.expname : m \in right.members}
        mismatch == {m.expname : m \in {x \in left.members :
                        x.expname \in rnames /\ x \notin right.members}}
        lonly == lnames \ rnames
        ronly == rnames \ lnames
    IN  IF left.members = right.members THEN <<>>
        ELSE IF mismatch = {} /\ (lonly = {} \/ ronly = {})
             THEN <<[kind |-> "SubsetError"]>>
        ELSE (IF mismatch # {} THEN <<[kind |-> "TypeMismatchError"]>> ELSE <<>>)
             \o (IF lonly # {} THEN <<[kind |-> "UnaccountedMembersError"]>> ELSE <<>>)
             \o (IF ronly # {} THEN <<[kind |-> "UnaccountedMembersError"]>> ELSE <<>>)

(***************************************************************************)
(* product_utils.py                                                        *)
(***************************************************************************)
\* the position sorted() gives x among the already sorted elements: behind every
\* element whose key is not greater (sorted is stable)
RECURSIVE InsertByCandidate(_, _)
InsertByCandidate(sorted, x) ==
    IF sorted = <<>> THEN <<x>>
    ELSE IF StrLess(asn_id[x], asn_id[Head(sorted)]) THEN <<x>> \o sorted
    ELSE <<Head(sorted)>> \o InsertByCandidate(Tail(sorted), x)

Unsorted(list) == list

\* sort_by_candidate(asns): sorted(asns, key=lambda asn: asn['asn_id'])
RECURSIVE sort_by_candidate(_)
sort_by_candidate(list) ==
    IF list = <<>> THEN <<>>
    ELSE InsertByCandidate(sort_by_candidate(Front(list)), Last(list))

IdentifyAll(list, name) ==
    [identified |-> list,
     valid |-> SelectSeq(list, LAMBDA a : ~StartsWithDup(name[a]))]

\* identify_dups(asns): (identified, valid)
identify_dups(list, name) ==
    [identified |-> SelectSeq(list, LAMBDA a : StartsWithDup(name[a])),
     valid |-> SelectSeq(list, LAMBDA a : ~StartsWithDup(name[a]))]

ProductName(a) == products[a][1].name

RECURSIVE EveryName(_, _)
EveryName(names, seen) ==
    IF names = <<>> THEN <<>>
    ELSE IF Head(names) \in seen THEN EveryName(Tail(names), seen)
    ELSE <<Head(names)>> \o EveryName(Tail(names), seen \cup {Head(names)})

\* Counter(product_names).items() with count > 1: in order of first occurrence
RECURSIVE DuplicateNames(_, _)
DuplicateNames(names, seen) ==
    IF names = <<>> THEN <<>>
    ELSE LET n == Head(names)
             rest == Tail(names)
         IN  IF n \notin seen /\ n \in Range(rest)
             THEN <<n>> \o DuplicateNames(rest, seen \cup {n})
             ELSE DuplicateNames(rest, seen \cup {n})

\* get_product_names(asns): (set(product_names), dups)
get_product_names(list) ==
    LET product_names == [i \in 1..Len(list) |-> ProductName(list[i])]
    IN  [product_names |-> Range(product_names),
         dups |-> DuplicateNames(product_names, {})]

KeepAll(list, x) == list

\* list.remove(x): without the first occurrence of x
RemoveFirst(list, x) ==
    LET i == CHOOSE i \in 1..Len(list) :
                 list[i] = x /\ \A j \in 1..(i - 1) : list[j] # x
    IN  SubSeq(list, 1, i - 1) \o SubSeq(list, i + 1, Len(list))

SameCount(count) == count

\* DupCount += 1
NextDupCount(count) == count + 1

\* prune_remove(remove_from, to_remove, known_dups), on the record st of what it
\* reads and changes: remove_from, known_dups, asn_name, DupCount (and the histories)
RECURSIVE prune_remove(_, _)
prune_remove(st, to_remove) ==
    IF to_remove = <<>> \/ st.failed THEN st
    ELSE LET asn == Head(to_remove)
         IN  IF asn \notin Range(st.remove_from)
             THEN [st EXCEPT !.failed = TRUE]
             ELSE LET s1 == [st EXCEPT !.remove_from = RemoveFirst(@, asn),
                                       !.removed = Append(@, asn)]
                      n == NextDupCount(s1.DupCount)
                      s2 == IF DEBUG
                            THEN [s1 EXCEPT !.DupCount = n,
                                            !.asn_name[asn] = DupName(n, @),
                                            !.known_dups = Append(@, asn),
                                            !.assigned = Append(@, n)]
                            ELSE s1
                  IN  prune_remove(s2, Tail(to_remove))

\* one call of the comparator, as the histories record it
Call(st, left, right) ==
    [left |-> left, right |-> right,
     left_marked |-> StartsWithDup(st.asn_name[left]),
     right_marked |-> StartsWithDup(st.asn_name[right])]

\* lines 137-145: the associations among those compared that original makes redundant
FirstMatchOnly(original, compared) ==
    LET all == SelectSeq(compared, LAMBDA a : compare_product_membership(
                             products[original][1], products[a][1]) = <<>>)
    IN  IF all = <<>> THEN <<>> ELSE <<Head(all)>>

MatchesOfOneName(original, compared) ==
    SelectSeq(compared, LAMBDA a :
        /\ ProductName(a) = ProductName(original)
        /\ compare_product_membership(products[original][1], products[a][1]) = <<>>)

MatchesOrSubsets(original, compared) ==
    SelectSeq(compared, LAMBDA a : Len(compare_product_membership(
                  products[original][1], products[a][1])) <= 1)

MatchesListedTwice(original, compared) ==
    LET all == SelectSeq(compared, LAMBDA a : compare_product_membership(
                             products[original][1], products[a][1]) = <<>>)
    IN  all \o all

MatchesOf(original, compared) ==
    SelectSeq(compared, LAMBDA a : compare_product_membership(
                  products[original][1], products[a][1]) = <<>>)

\* the loop "while True" of prune_duplicate_associations; st.pruned is the list pruned
RECURSIVE AssociationsLoop(_)
AssociationsLoop(st) ==
    IF st.failed THEN st
    ELSE IF st.remove_from = <<>> THEN [st EXCEPT !.pool = Append(@, 0)]
    ELSE LET original == Last(st.remove_from)
             ordered_asns == Front(st.remove_from)
             s1 == [st EXCEPT !.remove_from = ordered_asns,
                              !.pruned = Append(@, original),
                              !.pool = Append(@, Len(st.remove_from))]
         IN  IF StartsWithDup(st.asn_name[original]) THEN AssociationsLoop(s1)
             ELSE LET compared == SelectSeq(ordered_asns,
                                      LAMBDA a : ~StartsWithDup(st.asn_name[a]))
                      to_prune == MatchesOf(original, compared)
                      s2 == [s1 EXCEPT !.calls = @ \o
                                [i \in 1..Len(compared) |-> Call(st, original, compared[i])]]
                  IN  AssociationsLoop(prune_remove(s2, to_prune))

\* the record the passes work on
PassState(ordered_asns, identified) ==
    [remove_from |-> ordered_asns, known_dups |-> identified, pruned |-> <<>>,
     asn_name |-> asn_name, DupCount |-> DupCount, assigned |-> assigned,
     removed |-> <<>>, calls |-> <<>>, warnings |-> <<>>, failed |-> FALSE,
     pool |-> pool]

\* prune_duplicate_associations(asns): the final record, with its result in .result
prune_duplicate_associations(list) ==
    LET parts == identify_dups(list, asn_name)
        ordered_asns == sort_by_candidate(parts.valid)
        st == AssociationsLoop([PassState(ordered_asns, parts.identified)
                                   EXCEPT !.pool = <<>>])
    IN  [st EXCEPT !.remove_from = st.pruned \o st.known_dups]

\* exposure_name(path)[0], for the expname of a member
exposure_name(expname) == remove_suffix(expname)

SciencesWithSuffix(product) ==
    {member.expname : member \in {m \in product.members : m.exptype = "science"}}

\* the set of science exposure names of a product (lines 234-236, 238-240)
Sciences(product) ==
    {exposure_name(member.expname) :
        member \in {m \in product.members : m.exptype = "science"}}

SameProductCount(left_products, right_products) ==
    Len(left_products) = Len(right_products)

\* compare_nosuffix(left, right) on the lists left['products'], right['products']
compare_nosuffix(left_products, right_products) ==
    IF Len(left_products) # Len(right_products) THEN FALSE
    ELSE \A i \in 1..Len(left_products) :
             \E j \in 1..Len(right_products) :
                 Sciences(left_products[i]) = Sciences(right_products[j])

SubsetSwapsOnly(f, keeper, asn) ==
    IF Cardinality(products[asn][1].members) > Cardinality(products[keeper][1].members)
    THEN [f EXCEPT !.asn_keeper = asn]
    ELSE [f EXCEPT !.to_prune = Append(@, asn)]

SubsetKeepsKeeper(f, keeper, asn) == [f EXCEPT !.to_prune = Append(@, asn)]

\* lines 190-192: of keeper and asn, the one with fewer members is to be pruned and
\* the other is the keeper from here on
SubsetOutcome(f, keeper, asn) ==
    IF Cardinality(products[asn][1].members) > Cardinality(products[keeper][1].members)
    THEN [f EXCEPT !.asn_keeper = asn, !.to_prune = Append(@, keeper)]
    ELSE [f EXCEPT !.to_prune = Append(@, asn)]

HasSubsetEntry(diffs) == \E i \in 1..Len(diffs) : diffs[i].kind = "SubsetError"

\* line 189: len(diffs) == 1 and isinstance(diffs[0], diff.SubsetError)
IsPureSubset(diffs) == Len(diffs) = 1 /\ diffs[1].kind = "SubsetError"

\* lines 187-207: what the body of "for asn in dup_asns" does with diffs, the list
\* of differences the comparator has raised for keeper and asn (empty: it returned)
OnReport(f, keeper, asn, diffs) ==
    IF diffs = <<>>
    THEN [f EXCEPT !.to_prune = Append(@, asn)]
    ELSE IF IsPureSubset(diffs)
    THEN SubsetOutcome(f, keeper, asn)
    ELSE IF compare_nosuffix(products[keeper], products[asn])
    THEN f
    ELSE [f EXCEPT !.warnings = Append(@,
              [asn_1 |-> keeper, asn_2 |-> asn, diffs |-> diffs])]

\* the body of "for asn in dup_asns" of prune_duplicate_products, for one asn;
\* f holds asn_keeper, to_prune and the histories
CompareWithKeeper(f, asn) ==
    IF StartsWithDup(f.asn_name[asn]) THEN f
    ELSE LET keeper == f.asn_keeper
             diffs == compare_product_membership(products[keeper][1], products[asn][1])
             f1 == [f EXCEPT !.calls = Append(@, Call(f, keeper, asn))]
         IN  OnReport(f1, keeper, asn, diffs)

\* the record the loops of prune_duplicate_products work on
FoldState ==
    [asn_keeper |-> 0, to_prune |-> <<>>, calls |-> <<>>, warnings |-> <<>>,
     asn_name |-> asn_name]

RECURSIVE KeeperLoop(_, _)
KeeperLoop(f, dup_asns) ==
    IF dup_asns = <<>> THEN f
    ELSE KeeperLoop(CompareWithKeeper(f, Head(dup_asns)), Tail(dup_asns))

RECURSIVE ProductsLoopUngrouped(_, _, _)
ProductsLoopUngrouped(f, dups, ordered_asns) ==
    IF dups = <<>> THEN f
    ELSE LET f1 == KeeperLoop([f EXCEPT !.asn_keeper = Last(ordered_asns)],
                              Front(ordered_asns))
         IN  ProductsLoopUngrouped(f1, Tail(dups), ordered_asns)

RECURSIVE ProductsLoopFromFirst(_, _, _)
ProductsLoopFromFirst(f, dups, ordered_asns) ==
    IF dups = <<>> THEN f
    ELSE LET dup_asns == SelectSeq(ordered_asns, LAMBDA a : ProductName(a) = Head(dups))
             f1 == KeeperLoop([f EXCEPT !.asn_keeper = Head(dup_asns)], Tail(dup_asns))
         IN  ProductsLoopFromFirst(f1, Tail(dups), ordered_asns)

\* the loop "for product in dups" of prune_duplicate_products
RECURSIVE ProductsLoop(_, _, _)
ProductsLoop(f, dups, ordered_asns) ==
    IF dups = <<>> THEN f
    ELSE LET dup_asns == SelectSeq(ordered_asns, LAMBDA a : ProductName(a) = Head(dups))
             f1 == KeeperLoop([f EXCEPT !.asn_keeper = Last(dup_asns)], Front(dup_asns))
         IN  ProductsLoop(f1, Tail(dups), ordered_asns)

\* the list prune_duplicate_products sorts and removes from (line 173)
SortedForProducts(list, valid_asns) == sort_by_candidate(list)

\* prune_duplicate_products(asns): the final record, with its result in .remove_from
prune_duplicate_products(list) ==
    LET parts == identify_dups(list, asn_name)
        names == get_product_names(parts.valid)
        st0 == PassState(list, parts.identified)
    IN  IF names.dups = <<>> THEN st0
        ELSE LET ordered_asns == SortedForProducts(list, parts.valid)
                 f == ProductsLoop(FoldState, names.dups, ordered_asns)
                 st == prune_remove([PassState(ordered_asns, parts.identified)
                                        EXCEPT !.calls = f.calls,
                                               !.warnings = f.warnings],
                                    f.to_prune)
             IN  [st EXCEPT !.remove_from = st.remove_from \o st.known_dups]

(***************************************************************************)
(* The state machine: prune(asns) is called again and again on its own     *)
(* result; each call is its two passes, one step each.                     *)
(***************************************************************************)
\* no function of the module has run yet
NothingRun ==
    /\ DupCount = 0
    /\ runs = 0
    /\ run_in = <<>>
    /\ run_in_name = asn_name
    /\ pass_in = <<>>
    /\ pass_in_name = asn_name
    /\ pass_in_count = 0
    /\ known_dups = <<>>
    /\ calls = <<>>
    /\ warnings = <<>>
    /\ removed = <<>>
    /\ assigned = <<>>
    /\ failed = FALSE
    /\ pool = <<>>
    /\ returned = <<>>

InitOf(plans, ids, names) ==
    /\ DEBUG \in BOOLEAN
    /\ \E n \in 1..plans :
          /\ asns = [i \in 1..n |-> i]
          /\ asn_id \in [1..n -> ids]
          /\ products \in [1..n -> {<<[name |-> p, members |-> m]>> :
                                       p \in names, m \in MemberSets}]
          \* product names are only compared for equality: an input and the input
          \* with "P" and "Q" exchanged behave alike, so the first name is "P"
          /\ products[1][1].name = "P"
          /\ asn_name = [i \in 1..n |-> BaseName(i)]
    /\ pc = "idle"
    /\ args = <<>>
    /\ NothingRun

\* what a pass leaves behind
PassEffect(st) ==
    /\ asns' = st.remove_from
    /\ asn_name' = st.asn_name
    /\ DupCount' = st.DupCount
    /\ calls' = st.calls
    /\ warnings' = st.warnings
    /\ removed' = st.removed
    /\ assigned' = st.assigned
    /\ failed' = st.failed
    /\ pool' = st.pool
    /\ pass_in' = asns
    /\ pass_in_name' = asn_name
    /\ pass_in_count' = DupCount
    /\ known_dups' = st.known_dups

\* prune, line 100: pruned = prune_duplicate_associations(asns)
PruneAssociations ==
    /\ pc = "idle"
    /\ runs < MaxRuns
    /\ ~failed
    /\ PassEffect(prune_duplicate_associations(asns))
    /\ pc' = "mid"
    /\ run_in' = asns
    /\ run_in_name' = asn_name
    /\ UNCHANGED <<asn_id, products, DEBUG, runs, args, returned>>

\* prune, lines 101-102: pruned = prune_duplicate_products(pruned); return pruned
PruneProducts ==
    /\ pc = "mid"
    /\ ~failed
    /\ PassEffect(prune_duplicate_products(asns))
    /\ pc' = "idle"
    /\ runs' = runs + 1
    /\ UNCHANGED <<asn_id, products, DEBUG, run_in, run_in_name, args, returned>>

Next == PruneAssociations \/ PruneProducts

Init == InitOf(MaxPlans, CandidateIds, ProductNames)

Spec == Init /\ [][Next]_vars

\* prune, lines 100-102, as control flow: from between the passes to the return
ReturnFromPrune == pc = "mid" /\ ~failed /\ pc' = "idle"

\* prune does not stop between its two passes: line 101 follows line 100
LiveSpec == Spec /\ WF_pc(ReturnFromPrune)

\* prune on more associations, all of one product name and one asn_id
InitOneName == InitOf(MaxSameName, {<<"a", "2">>}, {"P"})

SpecOneName == InitOneName /\ [][Next]_vars

(***************************************************************************)
(* The functions of the module called on their own, once, on arguments of  *)
(* the caller's choice.                                                    *)
(***************************************************************************)
\* the products of the associations handed to a function on its own
OneProduct == <<[name |-> "P", members |-> {Member("s1", "rate", "science")}]>>

\* the differences the comparator can report
DiffKinds == {"SubsetError", "TypeMismatchError", "UnaccountedMembersError"}
DiffReports == UNION {[1..k -> {[kind |-> d] : d \in DiffKinds}] : k \in 0..MaxDiffs}

\* asn['products'] of one to MaxProducts products
ProductLists ==
    UNION {[1..k -> {[name |-> "P", members |-> m] : m \in MemberSets}] :
              k \in 1..MaxProducts}

InitFunctions ==
    /\ DEBUG = FALSE
    /\ \/ /\ pc = "sort_by_candidate"
          /\ \E n \in 1..MaxPlans :
                /\ asn_id \in [1..n -> CandidateIds]
                /\ products = [i \in 1..n |-> OneProduct]
                /\ asn_name = [i \in 1..n |-> BaseName(i)]
                /\ asns \in [1..n -> 1..n]
          /\ args = <<asns>>
       \/ /\ pc = "compare_nosuffix"
          /\ asns = <<1, 2>>
          /\ asn_id = [i \in 1..2 |-> <<"a", "2">>]
          /\ products \in [1..2 -> ProductLists]
          /\ asn_name = [i \in 1..2 |-> BaseName(i)]
          /\ args = <<1, 2>>
       \/ /\ pc = "report"
          /\ asns = <<1, 2>>
          /\ asn_id = [i \in 1..2 |-> <<"a", "2">>]
          /\ products \in [1..2 -> {<<[name |-> "P", members |-> m]>> : m \in MemberSets}]
          /\ asn_name = [i \in 1..2 |-> BaseName(i)]
          /\ \E diffs \in DiffReports : args = <<2, 1, diffs>>
    /\ NothingRun

\* sorted_by_candidate = sort_by_candidate(asns)
SortByCandidate ==
    /\ pc = "sort_by_candidate"
    /\ returned' = sort_by_candidate(args[1])
    /\ pc' = "sorted"
    /\ UNCHANGED <<asns, asn_id, products, asn_name, DEBUG, DupCount, runs, run_in,
                   run_in_name, pass_in, pass_in_name, pass_in_count, known_dups,
                   calls, warnings, removed, assigned, failed, pool, args>>

\* valid = compare_nosuffix(left, right)
CompareNosuffix ==
    /\ pc = "compare_nosuffix"
    /\ returned' = compare_nosuffix(products[args[1]], products[args[2]])
    /\ pc' = "compared"
    /\ UNCHANGED <<asns, asn_id, products, asn_name, DEBUG, DupCount, runs, run_in,
                   run_in_name, pass_in, pass_in_name, pass_in_count, known_dups,
                   calls, warnings, removed, assigned, failed, pool, args>>

\* lines 185-207 for asn_keeper = args[1], asn = args[2] and the differences args[3]
HandleReport ==
    /\ pc = "report"
    /\ returned' = OnReport([FoldState EXCEPT !.asn_keeper = args[1]],
                            args[1], args[2], args[3])
    /\ pc' = "reported"
    /\ UNCHANGED <<asns, asn_id, products, asn_name, DEBUG, DupCount, runs, run_in,
                   run_in_name, pass_in, pass_in_name, pass_in_count, known_dups,
                   calls, warnings, removed, assigned, failed, pool, args>>

NextFunctions == SortByCandidate \/ CompareNosuffix \/ HandleReport

SpecFunctions == InitFunctions /\ [][NextFunctions]_vars

(***************************************************************************)
(* Vocabulary of the properties.                                           *)
(***************************************************************************)
\* the associations of a list whose name does not start with the marker prefix
Unmarked(list, name) == {a \in Range(list) : ~StartsWithDup(name[a])}

\* a is in the caller's list and is not marked
Survives(a) == a \in Unmarked(asns, asn_name)

\* a call of prune has returned
RunDone == pc = "idle" /\ runs >= 1

Members(a) == products[a][1].members

\* no product name is carried by more than two associations of the input
AtMostTwoPerName ==
    \A a, b, c \in DOMAIN products :
        (ProductName(a) = ProductName(b) /\ ProductName(b) = ProductName(c))
            => (a = b \/ b = c \/ a = c)

(***************************************************************************)
(* C1. Idempotence: a second call of prune, on the result of the first,    *)
(* leaves the set of unmarked associations as the first call left it.      *)
(***************************************************************************)
\* as claimed, for every input
C1_Idempotent ==
    (RunDone /\ runs >= 2) => Unmarked(asns, asn_name) = Unmarked(run_in, run_in_name)

\* C1 as amended: when no product name is carried by more than two associations
\* of the input, the second call of prune removes and marks nothing
C1_IdempotentUpToTwoPerName ==
    (RunDone /\ runs >= 2 /\ AtMostTwoPerName)
        => Unmarked(asns, asn_name) = Unmarked(run_in, run_in_name)

\* a second call has returned, for an input of which the first call pruned a part
C1_Witness ==
    /\ RunDone /\ runs >= 2 /\ AtMostTwoPerName
    /\ Unmarked(asns, asn_name) # DOMAIN products
    /\ \E a, b \in DOMAIN products : a # b /\ ProductName(a) = ProductName(b)

(***************************************************************************)
(* C2. With config.DEBUG set, prune returns as many associations as it was *)
(* given.                                                                  *)
(***************************************************************************)
C2_RetainKeepsCount == (DEBUG /\ RunDone) => Len(asns) = Len(run_in)

(***************************************************************************)
(* C3. With config.DEBUG unset, prune (and its first pass) returns at most *)
(* as many associations as prune was given.                                *)
(***************************************************************************)
C3_DeleteNeverGrows ==
    (~DEBUG /\ (RunDone \/ pc = "mid")) => Len(asns) <= Len(run_in)

\* prune has returned fewer associations than it was given
C3_Witness == ~DEBUG /\ RunDone /\ Len(asns) < Len(run_in)

(***************************************************************************)
(* C4. No call of the comparator by either pass has an argument whose      *)
(* association is marked at the time of the call.                          *)
(***************************************************************************)
C4_NoMarkedCompared ==
    \A i \in 1..Len(calls) : ~calls[i].left_marked /\ ~calls[i].right_marked

(***************************************************************************)
(* C5. Marker monotonicity: an association whose name starts with the      *)
(* marker prefix has such a name after every step.                         *)
(***************************************************************************)
C5_MarkerMonotonic ==
    [][\A a \in DOMAIN asn_name :
           StartsWithDup(asn_name[a]) => StartsWithDup(asn_name'[a])]_vars

\* an association that was marked on entry to a pass was renamed by it, and is marked
C5_Witness ==
    \E i \in 1..Len(removed) :
        /\ DEBUG
        /\ StartsWithDup(pass_in_name[removed[i]])
        /\ StartsWithDup(asn_name[removed[i]])

(***************************************************************************)
(* C6. Counter monotonicity: DupCount starts at zero and never decreases;  *)
(* with config.DEBUG set a pass raises it by one for each association it   *)
(* hands to prune_remove, and the numbers written into names are, in the   *)
(* order written, the successors of the previous value of DupCount: so     *)
(* they are strictly increasing and pairwise distinct.                     *)
(***************************************************************************)
C6_CounterMonotonic ==
    /\ DupCount = 0
    /\ assigned = <<>>
    /\ [][/\ DupCount' >= DupCount
          /\ DEBUG => DupCount' = DupCount + Len(removed')
          /\ assigned' = assigned \o [i \in 1..(DupCount' - DupCount) |-> DupCount + i]
          /\ \A i, j \in 1..Len(assigned') : i < j => assigned'[i] < assigned'[j]]_vars

\* numbers were written into names by two different passes
C6_Witness == DEBUG /\ Len(assigned) >= 2 /\ Len(removed) >= 1 /\ Len(removed) < Len(assigned)

\* what the comparator reports for two associations
Diffs(a, b) == compare_product_membership(products[a][1], products[b][1])

\* the comparator reports exactly one difference, classified as a subset
SubsetReported(a, b) == Len(Diffs(a, b)) = 1 /\ Diffs(a, b)[1].kind = "SubsetError"

\* a and b are eligible on entry to the last pass and carry the same product name
SameNamePair(a, b) ==
    /\ a # b
    /\ ProductName(a) = ProductName(b)
    /\ ~StartsWithDup(pass_in_name[a])
    /\ ~StartsWithDup(pass_in_name[b])

\* no third association given to the last pass carries the product name of a and b
OnlyTwoOfName(a, b) ==
    \A c \in Range(pass_in) : ProductName(c) = ProductName(a) => c \in {a, b}

\* the last pass was prune_duplicate_products, and it has returned
ProductsDone == RunDone /\ ~failed

(***************************************************************************)
(* C7. Priority preservation: of two associations that are eligible in the *)
(* input of prune, match under the comparator and differ in asn_id, the    *)
(* one with the smaller asn_id is removed or marked: it is never kept.     *)
(***************************************************************************)
C7_PriorityPreserved ==
    (RunDone \/ pc = "mid") =>
        \A p, q \in Unmarked(run_in, run_in_name) :
            (Diffs(q, p) = <<>> /\ StrLess(asn_id[p], asn_id[q])) => ~Survives(p)

\* prune kept the association of the greater asn_id and pruned the other
C7_Witness ==
    /\ RunDone
    /\ \E p, q \in Unmarked(run_in, run_in_name) :
          /\ Diffs(q, p) = <<>>
          /\ StrLess(asn_id[p], asn_id[q])
          /\ ~Survives(p)
          /\ Survives(q)

(***************************************************************************)
(* C8. Subset tie-break: of two associations with one product name whose   *)
(* difference is one subset entry, the one with more members survives      *)
(* prune_duplicate_products and the one with fewer members does not.       *)
(***************************************************************************)
\* as claimed, for every two such associations of the input
C8_SubsetTieBreak ==
    ProductsDone =>
        \A p, q \in Range(pass_in) :
            (/\ SameNamePair(p, q)
             /\ SubsetReported(q, p)
             /\ Cardinality(Members(p)) < Cardinality(Members(q)))
                => (Survives(q) /\ ~Survives(p))

\* C8 as amended: ... when no third association of the input of the pass carries
\* that product name
C8_SubsetTieBreakOfTwo ==
    ProductsDone =>
        \A p, q \in Range(pass_in) :
            (/\ SameNamePair(p, q)
             /\ OnlyTwoOfName(p, q)
             /\ SubsetReported(q, p)
             /\ Cardinality(Members(p)) < Cardinality(Members(q)))
                => (Survives(q) /\ ~Survives(p))

\* the association with fewer members had the greater asn_id and was pruned all the same
C8_Witness ==
    /\ ProductsDone
    /\ \E p, q \in Range(pass_in) :
          /\ SameNamePair(p, q)
          /\ OnlyTwoOfName(p, q)
          /\ SubsetReported(q, p)
          /\ Cardinality(Members(p)) < Cardinality(Members(q))
          /\ StrLess(asn_id[q], asn_id[p])
          /\ Survives(q)
          /\ ~Survives(p)

\* the science members of a, each reduced to its base identifier
ScienceBases(a) == {m.expname[1] : m \in {x \in Members(a) : x.exptype = "science"}}

\* a and b have the same members but for the trailing qualifier of science members
SuffixOnlyDifference(a, b) ==
    /\ Members(a) # Members(b)
    /\ {m \in Members(a) : m.exptype # "science"} = {m \in Members(b) : m.exptype # "science"}
    /\ ScienceBases(a) = ScienceBases(b)
    /\ Cardinality(Members(a)) = Cardinality(Members(b))

\* the last pass emitted a diagnostic that names a and b and their differences
Reported(a, b) ==
    \E i \in 1..Len(warnings) :
        /\ {warnings[i].asn_1, warnings[i].asn_2} = {a, b}
        /\ warnings[i].diffs = Diffs(warnings[i].asn_1, warnings[i].asn_2)

\* the last pass emitted a diagnostic that names a or b
Named(a) == \E i \in 1..Len(warnings) : a \in {warnings[i].asn_1, warnings[i].asn_2}

(***************************************************************************)
(* C9. Suffix exception: two associations with one product name whose      *)
(* science members differ only in the trailing qualifier are not reported  *)
(* by prune_duplicate_products, and both survive it.                       *)
(***************************************************************************)
\* as claimed, for every two such associations of the input
C9_SuffixException ==
    ProductsDone =>
        \A p, q \in Range(pass_in) :
            (SameNamePair(p, q) /\ SuffixOnlyDifference(p, q))
                => (~Reported(p, q) /\ Survives(p) /\ Survives(q))

\* C9 as amended: ... when no third association of the input of the pass carries
\* that product name
C9_SuffixExceptionOfTwo ==
    ProductsDone =>
        \A p, q \in Range(pass_in) :
            (SameNamePair(p, q) /\ OnlyTwoOfName(p, q) /\ SuffixOnlyDifference(p, q))
                => (~Reported(p, q) /\ ~Named(p) /\ ~Named(q) /\ Survives(p) /\ Survives(q))

\* the pass compared two such associations, reported nothing and kept both
C9_Witness ==
    /\ ProductsDone
    /\ \E p, q \in Range(pass_in) :
          /\ SameNamePair(p, q)
          /\ OnlyTwoOfName(p, q)
          /\ SuffixOnlyDifference(p, q)
          /\ \E i \in 1..Len(calls) : {calls[i].left, calls[i].right} = {p, q}
          /\ Survives(p)
          /\ Survives(q)

\* the differences of a and b are no match, no single subset entry, and a and b are
\* not equal up to suffixes
Ambiguous(a, b) ==
    /\ Diffs(a, b) # <<>>
    /\ ~SubsetReported(a, b)
    /\ ScienceBases(a) # ScienceBases(b)

(***************************************************************************)
(* C10. An ambiguous conflict is reported and not resolved: for two        *)
(* associations with one product name and ambiguous differences,           *)
(* prune_duplicate_products emits a diagnostic naming both and the         *)
(* differences, no exception escapes, and both survive.                    *)
(***************************************************************************)
\* as claimed, for every two such associations of the input
C10_AmbiguousReported ==
    RunDone =>
        \A p, q \in Range(pass_in) :
            (SameNamePair(p, q) /\ Ambiguous(p, q))
                => (Reported(p, q) /\ ~failed /\ Survives(p) /\ Survives(q))

\* C10 as amended: ... when no third association of the input of the pass carries
\* that product name
C10_AmbiguousReportedOfTwo ==
    RunDone =>
        \A p, q \in Range(pass_in) :
            (SameNamePair(p, q) /\ OnlyTwoOfName(p, q) /\ Ambiguous(p, q))
                => (Reported(p, q) /\ ~failed /\ Survives(p) /\ Survives(q))

\* the pass reported two such associations and kept both
C10_Witness ==
    /\ RunDone
    /\ \E p, q \in Range(pass_in) :
          /\ SameNamePair(p, q)
          /\ OnlyTwoOfName(p, q)
          /\ Ambiguous(p, q)
          /\ Reported(p, q)
          /\ Survives(p)
          /\ Survives(q)

\* no two eligible entries of the list given to the last pass carry one product name
NoNameTwice ==
    \A i, j \in 1..Len(pass_in) :
        (/\ i # j
         /\ ~StartsWithDup(pass_in_name[pass_in[i]])
         /\ ~StartsWithDup(pass_in_name[pass_in[j]]))
            => ProductName(pass_in[i]) # ProductName(pass_in[j])

(***************************************************************************)
(* C11. The fast path is a no-op: when no product name occurs more than    *)
(* once among the eligible associations, prune_duplicate_products returns  *)
(* the list it was given, in the same order, renames nothing, calls the    *)
(* comparator not once and leaves DupCount as it was.                      *)
(***************************************************************************)
C11_FastPathNoOp ==
    (ProductsDone /\ NoNameTwice) =>
        /\ asns = pass_in
        /\ asn_name = pass_in_name
        /\ calls = <<>>
        /\ removed = <<>>
        /\ warnings = <<>>
        /\ DupCount = pass_in_count

\* the pass returned a list that is not in the order of asn_id and in which a marked
\* association carries the product name of an eligible one
C11_Witness ==
    /\ ProductsDone /\ NoNameTwice
    /\ asns = pass_in
    /\ \E i, j \in 1..Len(asns) :
          /\ i < j
          /\ StrLess(asn_id[asns[j]], asn_id[asns[i]])
    /\ \E a, b \in Range(asns) :
          /\ StartsWithDup(asn_name[a])
          /\ ~StartsWithDup(asn_name[b])
          /\ ProductName(a) = ProductName(b)

\* a pass has returned
PassDone == pc = "mid" \/ RunDone

\* the entries of the list given to the last pass that were marked then
MarkedOnEntry == SelectSeq(pass_in, LAMBDA a : StartsWithDup(pass_in_name[a]))

(***************************************************************************)
(* C12. Removal with config.DEBUG unset: every association a pass hands to *)
(* prune_remove was in the list given to the pass and is nowhere in its    *)
(* result, which is shorter by their number; no name changes, known_dups   *)
(* does not grow and DupCount is left as it was.                           *)
(***************************************************************************)
C12_DeleteDrops ==
    (~DEBUG /\ PassDone) =>
        /\ \A i \in 1..Len(removed) :
               removed[i] \in Range(pass_in) /\ removed[i] \notin Range(asns)
        /\ Len(asns) = Len(pass_in) - Len(removed)
        /\ asn_name = pass_in_name
        /\ known_dups = MarkedOnEntry
        /\ DupCount = pass_in_count

\* each of the two passes of one call of prune has dropped an association
C12_Witness ==
    /\ ~DEBUG /\ RunDone
    /\ removed # <<>>
    /\ Len(pass_in) < Len(run_in)

\* the decimal numeral of n < 100, in five characters
Digits == <<"0", "1", "2", "3", "4", "5", "6", "7", "8", "9">>
FiveDigits(n) == <<"0", "0", "0", Digits[(n \div 10) + 1], Digits[(n % 10) + 1]>>

\* the part of the result of the last pass in front of known_dups
Kept == SubSeq(asns, 1, Len(asns) - Len(known_dups))

(***************************************************************************)
(* C13. Removal with config.DEBUG set: every association a pass hands to   *)
(* prune_remove is taken out of the list removed from, gets the name       *)
(* "dup", the new value of DupCount in five digits, "_" and its name of    *)
(* before, and is appended to known_dups, so that it is in the result.     *)
(***************************************************************************)
C13_RetainMarks ==
    (DEBUG /\ PassDone) =>
        \A i \in 1..Len(removed) :
            /\ removed[i] \notin Range(Kept)
            /\ asn_name[removed[i]] =
                   <<"d", "u", "p">> \o FiveDigits(pass_in_count + i) \o <<"_">>
                       \o pass_in_name[removed[i]]
            /\ removed[i] \in Range(known_dups)
            /\ removed[i] \in Range(asns)

\* the characters of candidate ids, in the order of their code points
Alphabet == <<"0", "1", "2", "3", "4", "5", "6", "7", "8", "9", "a", "c", "o">>
Position(c) == CHOOSE i \in 1..Len(Alphabet) : Alphabet[i] = c

\* s is not behind t in the lexicographic order of strings: s is a prefix of t, or
\* where they first differ s has the smaller character
LexLeq(s, t) ==
    \/ Len(s) <= Len(t) /\ SubSeq(t, 1, Len(s)) = s
    \/ \E k \in 1..Len(s) :
          /\ k <= Len(t)
          /\ SubSeq(s, 1, k - 1) = SubSeq(t, 1, k - 1)
          /\ Position(s[k]) < Position(t[k])

\* out holds the entries of list, each as often as list does
Permutation(out, list) ==
    /\ Len(out) = Len(list)
    /\ \A a \in Range(list) \cup Range(out) :
           Cardinality({i \in 1..Len(out) : out[i] = a})
               = Cardinality({i \in 1..Len(list) : list[i] = a})

(***************************************************************************)
(* C14. sort_by_candidate returns a permutation of the list it is given,   *)
(* ascending by asn_id in the lexicographic order of strings, and leaves   *)
(* the list it is given and every association as they were.                *)
(***************************************************************************)
C14_SortByCandidate ==
    /\ [](pc = "sorted" =>
            /\ Permutation(returned, args[1])
            /\ \A i, j \in 1..Len(returned) :
                   i < j => LexLeq(asn_id[returned[i]], asn_id[returned[j]]))
    /\ [][pc = "sort_by_candidate" =>
            /\ asns' = asns /\ args' = args
            /\ asn_id' = asn_id /\ asn_name' = asn_name /\ products' = products]_vars

\* a list with "a2" in front of "a10" and one association twice has been sorted
C14_Witness ==
    /\ pc = "sorted"
    /\ returned # args[1]
    /\ \E i, j \in 1..Len(asns) :
          i < j /\ asn_id[asns[i]] = <<"a", "2">> /\ asn_id[asns[j]] = <<"a", "1", "0">>
    /\ \E i, j \in 1..Len(asns) : i < j /\ asns[i] = asns[j]

(***************************************************************************)
(* C15. Asymmetry of prune_duplicate_associations: an association taken as *)
(* original (it is in the list pruned) is not handed to prune_remove and   *)
(* not renamed by the pass; every eligible association is an original or   *)
(* removed; and every association the pass removes has the members of an   *)
(* original whose asn_id is not smaller than its own.                      *)
(***************************************************************************)
C15_OriginalNeverPruned ==
    pc = "mid" =>
        /\ \A o \in Range(Kept) :
               o \notin Range(removed) /\ asn_name[o] = pass_in_name[o]
        /\ Range(Kept) \cup Range(removed) = Unmarked(pass_in, pass_in_name)
        /\ \A i \in 1..Len(removed) :
               \E o \in Range(Kept) :
                   /\ Members(o) = Members(removed[i])
                   /\ LexLeq(asn_id[removed[i]], asn_id[o])

\* the pass removed an association of a smaller asn_id than its original, and one
\* of the asn_id of its original
C15_Witness ==
    /\ pc = "mid"
    /\ \E i, j \in 1..Len(removed) :
          \E o \in Range(Kept) :
              /\ Members(o) = Members(removed[i])
              /\ Members(o) = Members(removed[j])
              /\ asn_id[removed[i]] # asn_id[o]
              /\ asn_id[removed[j]] = asn_id[o]

(***************************************************************************)
(* C16. An association that is marked on entry to a pass is, in that pass, *)
(* never the keeper of a comparison, never handed to prune_remove, and     *)
(* leaves the pass with the name it entered with.                          *)
(***************************************************************************)
C16_MarkedUntouched ==
    PassDone =>
        \A a \in Range(pass_in) :
            StartsWithDup(pass_in_name[a]) =>
                /\ \A i \in 1..Len(calls) : calls[i].left # a
                /\ a \notin Range(removed)
                /\ asn_name[a] = pass_in_name[a]

\* the calls of the comparator by the last pass for the product name n, in order
CallsOf(n) == SelectSeq(calls, LAMBDA c : ProductName(c.left) = n)

\* the associations given to the last pass that carry the product name n
Group(n) == {a \in Range(pass_in) : ProductName(a) = n}

\* the comparison c ends with its right argument as the keeper
Swapped(c) ==
    /\ SubsetReported(c.left, c.right)
    /\ Cardinality(Members(c.right)) > Cardinality(Members(c.left))

(***************************************************************************)
(* C17. The fold of prune_duplicate_products over three or more            *)
(* associations of one product name: the first keeper has the greatest     *)
(* asn_id of them; the others that are eligible are compared once each, in *)
(* ascending order of asn_id, with the keeper of that step, which is the   *)
(* right argument of the step before if that step swapped and its left     *)
(* argument if not; a keeper swapped out is not compared again.            *)
(***************************************************************************)
C17_KeeperFold ==
    ProductsDone =>
        \A n \in ProductNames :
            LET c == CallsOf(n)
                eligible == {a \in Group(n) : ~StartsWithDup(pass_in_name[a])}
            IN  (Cardinality(Group(n)) >= 3 /\ Cardinality(eligible) >= 2) =>
                    /\ c # <<>>
                    /\ \A b \in Group(n) : LexLeq(asn_id[b], asn_id[c[1].left])
                    /\ {c[i].right : i \in 1..Len(c)} = eligible \ {c[1].left}
                    /\ \A i, j \in 1..Len(c) :
                           i < j =>
                               /\ c[i].right # c[j].right
                               /\ LexLeq(asn_id[c[i].right], asn_id[c[j].right])
                               /\ Swapped(c[i]) =>
                                      c[i].left \notin {c[j].left, c[j].right}
                    /\ \A i \in 1..(Len(c) - 1) :
                           c[i + 1].left = IF Swapped(c[i]) THEN c[i].right ELSE c[i].left

\* three eligible associations of one product name and of two asn_id: the first
\* comparison swapped the keeper and the second was made with the new keeper
C17_Witness ==
    /\ ProductsDone
    /\ \E n \in ProductNames :
          /\ Cardinality({a \in Group(n) : ~StartsWithDup(pass_in_name[a])}) >= 3
          /\ Len(CallsOf(n)) >= 2
          /\ Swapped(CallsOf(n)[1])
          /\ CallsOf(n)[2].left = CallsOf(n)[1].right
          /\ asn_id[CallsOf(n)[1].left] # asn_id[CallsOf(n)[1].right]

(***************************************************************************)
(* C18. The three outcomes of the comparator are kept apart: the body of   *)
(* the loop of prune_duplicate_products puts an association on to_prune    *)
(* exactly on a match and on a report of one entry that is a SubsetError;  *)
(* on every other report it removes nothing, keeps the keeper, and emits   *)
(* the diagnostic (both associations and the report) exactly when the two  *)
(* are not equal up to the suffixes of their science members.              *)
(***************************************************************************)
C18_OutcomesApart ==
    pc = "reported" =>
        LET keeper == args[1]
            asn == args[2]
            diffs == args[3]
            removal == diffs = <<>> \/ (Len(diffs) = 1 /\ diffs[1].kind = "SubsetError")
        IN  /\ removal =>
                   /\ Len(returned.to_prune) = 1
                   /\ returned.to_prune[1] \in {keeper, asn}
                   /\ returned.warnings = <<>>
            /\ ~removal =>
                   /\ returned.to_prune = <<>>
                   /\ returned.asn_keeper = keeper
                   /\ returned.warnings =
                          IF ScienceBases(keeper) = ScienceBases(asn) THEN <<>>
                          ELSE <<[asn_1 |-> keeper, asn_2 |-> asn, diffs |-> diffs]>>

\* a report of two entries, one of them a SubsetError, for a keeper with fewer
\* members: nothing is removed, the diagnostic is emitted
C18_Witness ==
    /\ pc = "reported"
    /\ Len(args[3]) = 2
    /\ args[3][1].kind = "SubsetError"
    /\ Cardinality(Members(args[1])) < Cardinality(Members(args[2]))
    /\ returned.to_prune = <<>>
    /\ returned.warnings # <<>>

\* the science members of a product, each reduced to its base identifier
BasesOf(product) == {m.expname[1] : m \in {x \in product.members : x.exptype = "science"}}

\* a one-to-one pairing of the products of left with those of right in which the
\* two of every pair have the same science members up to suffixes
Paired(left, right) ==
    /\ Len(left) = Len(right)
    /\ \E pairing \in [1..Len(left) -> 1..Len(right)] :
          /\ \A i, j \in 1..Len(left) : i # j => pairing[i] # pairing[j]
          /\ \A i \in 1..Len(left) : BasesOf(left[i]) = BasesOf(right[pairing[i]])

(***************************************************************************)
(* C19. When compare_nosuffix(left, right) returns true there is a         *)
(* one-to-one pairing of the products of left with the products of right   *)
(* with equal suffix-stripped science sets in every pair, and              *)
(* compare_nosuffix(right, left) is true as well.                          *)
(***************************************************************************)
C19_SuffixBijection ==
    (pc = "compared" /\ returned = TRUE) =>
        /\ Paired(products[args[1]], products[args[2]])
        /\ compare_nosuffix(products[args[2]], products[args[1]])

(***************************************************************************)
(* C20. Termination: prune, once called, returns; the pool of              *)
(* prune_duplicate_associations starts with the eligible associations, is  *)
(* strictly smaller at every pop and ends empty; and prune_remove is never *)
(* handed an association that is not in the list to remove from.           *)
(***************************************************************************)
C20_Terminates ==
    /\ []~failed
    /\ []((pc = "mid") =>
             /\ pool # <<>>
             /\ pool[1] = Len(pass_in) - Len(MarkedOnEntry)
             /\ pool[Len(pool)] = 0
             /\ \A i \in 1..(Len(pool) - 1) : pool[i + 1] < pool[i])
    /\ (pc = "mid") ~> (pc = "idle")

\* prune has returned; its first pass popped twice, removed associations after
\* the first pop, and its second pass removed one more
C20_Witness ==
    /\ RunDone
    /\ Len(pool) >= 3
    /\ pool[2] < pool[1] - 1
    /\ removed # <<>>

\* no eligible entry of the list given to the last pass, other than a, carries
\* the product name of a
NameOfItsOwn(a) ==
    \A b \in Range(pass_in) :
        (b # a /\ ~StartsWithDup(pass_in_name[b])) => ProductName(b) # ProductName(a)

\* a is an argument of a call of the comparator by the last pass
Compared(a) == \E i \in 1..Len(calls) : a \in {calls[i].left, calls[i].right}

(***************************************************************************)
(* C21. prune_duplicate_products compares only associations of one product *)
(* name: an association whose product name no other eligible association   *)
(* carries is not compared, not handed to prune_remove, not renamed and    *)
(* not named in a diagnostic by it; and an association that shares neither *)
(* its product name nor its members with another of the input of prune is  *)
(* in the result of prune, unmarked, with no diagnostic naming it.         *)
(***************************************************************************)
C21_OtherNamesApart ==
    ProductsDone =>
        /\ \A i \in 1..Len(calls) :
               ProductName(calls[i].left) = ProductName(calls[i].right)
        /\ \A a \in Range(pass_in) :
               NameOfItsOwn(a) =>
                   /\ ~Compared(a)
                   /\ a \notin Range(removed)
                   /\ asn_name[a] = pass_in_name[a]
                   /\ ~Named(a)
                   /\ a \in Range(asns)
        /\ \A p \in Unmarked(run_in, run_in_name) :
               (\A q \in Range(run_in) \ {p} :
                    ProductName(q) # ProductName(p) /\ Members(q) # Members(p))
                   => (Survives(p) /\ ~Named(p))

\* the pass removed one of two associations of one product name and left alone a
\* third, of another product name, whose members are a subset of the survivor's
C21_Witness ==
    /\ ProductsDone
    /\ removed # <<>>
    /\ \E a \in Unmarked(run_in, run_in_name) :
          /\ NameOfItsOwn(a)
          /\ \A q \in Range(run_in) \ {a} : ProductName(q) # ProductName(a)
          /\ Survives(a)
          /\ \E b \in Range(asns) :
                /\ Survives(b)
                /\ SubsetReported(b, a)
                /\ Cardinality(Members(a)) < Cardinality(Members(b))

\* no entry of the list stands at two positions of it
Distinct(list) == \A i, j \in 1..Len(list) : list[i] = list[j] => i = j

(***************************************************************************)
(* C22. No association is returned twice: when the list given to           *)
(* prune_duplicate_associations or to prune_duplicate_products holds each  *)
(* association once, so does the list it returns, and when the list given  *)
(* to prune holds each association once, so does the result of prune.      *)
(***************************************************************************)
C22_NoPlanTwice ==
    /\ (PassDone /\ Distinct(pass_in)) => Distinct(asns)
    /\ (RunDone /\ Distinct(run_in)) => Distinct(asns)

\* prune_duplicate_associations has just returned
AssociationsDone == pc = "mid" /\ ~failed

\* the comparator raises nothing for the products of a and b
Match(a, b) == Diffs(a, b) = <<>>

(***************************************************************************)
(* C23. When prune_duplicate_associations returns, no two different        *)
(* unmarked associations of its result have products the comparator finds  *)
(* identical, and for every association that was unmarked in its input     *)
(* exactly one unmarked association of the result matches it.              *)
(***************************************************************************)
C23_OnePerMembership ==
    AssociationsDone =>
        /\ \A a, b \in Unmarked(asns, asn_name) : Match(a, b) => a = b
        /\ \A a \in Unmarked(pass_in, pass_in_name) :
               Cardinality({b \in Unmarked(asns, asn_name) : Match(a, b)}) = 1

\* three unmarked associations were given, two of them with the same members under
\* different product names; one of the two was removed, the third left alone
C23_Witness ==
    /\ AssociationsDone
    /\ Cardinality(Unmarked(pass_in, pass_in_name)) = 3
    /\ Len(removed) = 1
    /\ \E a \in Unmarked(asns, asn_name) :
          /\ Match(a, removed[1])
          /\ ProductName(a) # ProductName(removed[1])
          /\ ~Survives(removed[1])

\* s is in the result unmarked, has the product name of r and every member of r
Covers(s, r) ==
    /\ Survives(s)
    /\ ProductName(s) = ProductName(r)
    /\ Members(r) \subseteq Members(s)

(***************************************************************************)
(* C24. Every association that prune_duplicate_products handed to          *)
(* prune_remove is covered when the pass returns: an unmarked association  *)
(* of the same product name, with all its members, is in the result.       *)
(***************************************************************************)
C24_RemovedIsCovered ==
    ProductsDone => \A r \in Range(removed) : \E s \in Range(asns) : Covers(s, r)

\* a and b are different unmarked associations of the result with one product name,
\* and every member of a is a member of b
Overlap(a, b) ==
    /\ a # b
    /\ Survives(a)
    /\ Survives(b)
    /\ ProductName(a) = ProductName(b)
    /\ Members(a) \subseteq Members(b)

(***************************************************************************)
(* C25. When prune_duplicate_products returns, no two unmarked             *)
(* associations of its result share a product name while the members of    *)
(* one are the members, or some of the members, of the other.              *)
(***************************************************************************)
\* as claimed, for every two associations of the result
C25_NoOverlapLeft ==
    ProductsDone => \A a, b \in Range(asns) : ~Overlap(a, b)

\* C25 as amended: ... when no third association of the input of the pass carries
\* their product name
C25_NoOverlapLeftOfTwo ==
    ProductsDone => \A a, b \in Range(asns) : OnlyTwoOfName(a, b) => ~Overlap(a, b)

\* with DEBUG set, two associations of one product name and a third of another were
\* given; the one of the smaller asn_id held some of the members of the other, and
\* is in the result marked, the other unmarked
C25_Witness ==
    /\ ProductsDone
    /\ DEBUG
    /\ Len(pass_in) = 3
    /\ \E p, q \in Range(pass_in) :
          /\ SameNamePair(p, q)
          /\ OnlyTwoOfName(p, q)
          /\ StrLess(asn_id[p], asn_id[q])
          /\ Members(p) \subseteq Members(q)
          /\ Members(p) # Members(q)
          /\ p \in Range(removed)
          /\ p \in Range(asns)
          /\ ~Survives(p)
          /\ Survives(q)

====
